---- MODULE Spec2Model ----
(***************************************************************************)
(* Model of the status monitoring engine of the ProTanki clan bot:         *)
(* PlayerMonitor (monitoring.py), ProTankiScraper (protanki_scraper.py),   *)
(* the roster store (database.py) and the cog entry points (commands.py). *)
(*                                                                         *)
(* Scheduling follows asyncio: one thread, coroutines are interleaved only *)
(* at suspension points.  The polling loop suspends in asyncio.sleep only; *)
(* the lookups (requests.Session.get) and the store calls block the        *)
(* thread, so while a status check is in progress (run.who # "none") no    *)
(* other coroutine takes a step and the clock advances inside the check.   *)
(***************************************************************************)
EXTENDS Integers, Sequences, FiniteSets, TLC

----------------------------------------------------------------------------
(* Bounds of the model *)

MaxTime == 72
MaxCalls == 4
MaxOffset == 1
TickStep == 60
MaxLog == 3
MaxDraws == 2
MaxLen == 3
MaxChannels == 2

(* Program constants *)

check_interval == 60
PacingDelay == 2
LoopBackoff == 30
RequestTimeout == 10

None == -1

Usernames == {"Alice", "K.O", "GOAT"}

(* str.upper() on the usernames of the model *)
Upper(u) ==
    CASE u = "Alice" -> "ALICE"
      [] u = "K.O" -> "K.O"
      [] u = "GOAT" -> "GOAT"
      [] OTHER -> u

----------------------------------------------------------------------------
(* RankTable: ProTankiScraper.ranks, in insertion order *)

ranks ==
    << <<0, "Recruit">>, <<500, "Private">>, <<1500, "Gefreiter">>,
       <<3700, "Corporal">>, <<7300, "Master Corporal">>,
       <<13300, "Sergeant">>, <<22500, "Staff Sergeant">>,
       <<36300, "Sergeant First Class">>, <<56300, "Master Sergeant">>,
       <<83800, "First Sergeant">>, <<121000, "Sergeant Major">>,
       <<170500, "Warrant Officer 1">>,
       <<234800, "Chief Warrant Officer 2">>,
       <<316700, "Chief Warrant Officer 3">>,
       <<419300, "Chief Warrant Officer 4">>,
       <<546000, "Chief Warrant Officer 5">>,
       <<700700, "Second Lieutenant">>, <<888600, "First Lieutenant">>,
       <<1113300, "Captain">>, <<1380000, "Major">>,
       <<1693300, "Lieutenant Colonel">>, <<2059100, "Colonel">>,
       <<2483500, "Brigadier">>, <<2974000, "Major General">>,
       <<3538500, "Lieutenant General">>, <<4185500, "General">>,
       <<4923000, "Marshal">>, <<5760500, "Field Marshal">>,
       <<6708000, "Commander">>, <<7776000, "Generalissimo">> >>

RankNames == {ranks[i][2] : i \in 1..Len(ranks)}

(* the comparison made strict *)
Achieved_strict(experience, exp_required) == experience > exp_required

(* the comparison of the walk, experience >= exp_required *)
Achieved(experience, exp_required) == experience >= exp_required

(* the for loop of get_rank_from_experience from entry i on: keeps the     *)
(* last rank whose threshold is achieved and breaks at the first that is   *)
(* not                                                                     *)
RECURSIVE RankWalk(_, _, _)
RankWalk(i, achieved_rank, experience) ==
    IF i > Len(ranks) THEN achieved_rank
    ELSE IF Achieved(experience, ranks[i][1])
         THEN RankWalk(i + 1, ranks[i][2], experience)
         ELSE achieved_rank

get_rank_from_experience(experience) ==
    IF experience = None THEN "Unknown"
    ELSE RankWalk(1, "Recruit", experience)

----------------------------------------------------------------------------
(* ProTankiScraper: pages, extraction, synthetic data *)

NoMatch == "~"

(* str.title() on the rank captures of the pages of the model; the         *)
(* captures are taken from the lower-cased page text                       *)
Title(text) ==
    CASE text = "colonel" -> "Colonel"
      [] text = "pro gamer" -> "Pro Gamer"
      [] OTHER -> text

(* What a 200 response carries, as far as the scraper reads it:            *)
(*   valid       _is_valid_player_page: the username, a player/profile div *)
(*               or a rank/level span occurs                               *)
(*   rank_text   group(1) of the first of the rank patterns that matches,  *)
(*               stripped, or NoMatch                                      *)
(*   online      one of the online indicators occurs in the page text      *)
(*   experience  the number after "experience", or None                    *)
Pages ==
    { [valid |-> TRUE,  rank_text |-> "colonel", online |-> TRUE,
       experience |-> None],
      [valid |-> TRUE,  rank_text |-> "pro gamer", online |-> FALSE,
       experience |-> None],
      [valid |-> TRUE,  rank_text |-> "colonel", online |-> TRUE,
       experience |-> 499],
      [valid |-> FALSE, rank_text |-> NoMatch, online |-> FALSE,
       experience |-> None] }

(* An endpoint answers with a transport error (requests.RequestException), *)
(* with a status code other than 200, or with 200 and a page               *)
Responses ==
    { [kind |-> "error"], [kind |-> "status"] }
        \cup { [kind |-> "page", page |-> p] : p \in Pages }

(* how long a blocking request takes: an answer comes at once, a transport *)
(* error at once or when the timeout of the request expires                *)
RequestTimes(response) ==
    IF response.kind = "error" THEN {0, RequestTimeout} ELSE {0}

(* _extract_player_data *)
extract_player_data(page) ==
    LET rank0 == IF page.rank_text # NoMatch THEN Title(page.rank_text)
                 ELSE "Private"
    IN  [rank |-> IF page.experience # None
                  THEN get_rank_from_experience(page.experience)
                  ELSE rank0,
         is_online |-> page.online,
         experience |-> page.experience]

(* _generate_realistic_data: the values that random.choices, random.random *)
(* and random.randint return after random.seed(md5(username)), obtained by *)
(* running the function on the usernames of the model                      *)
generate_realistic_data(username) ==
    CASE username = "Alice" ->
            [rank |-> "Recruit", is_online |-> TRUE, experience |-> 89]
      [] username = "K.O" ->
            [rank |-> "Staff Sergeant", is_online |-> FALSE,
             experience |-> 23356]
      [] username = "GOAT" ->
            [rank |-> "Sergeant Major", is_online |-> FALSE,
             experience |-> 122168]
      [] username = "Tom" ->
            [rank |-> "Private", is_online |-> FALSE, experience |-> 1845]
      [] username = "Dave" ->
            [rank |-> "Recruit", is_online |-> FALSE, experience |-> 1995]

(* the usernames _generate_realistic_data is applied to *)
SyntheticNames == Usernames \cup {"Tom", "Dave"}

(* the endpoint lists of _search_protanki_eu and _search_alternative_sites *)
search_urls == <<"protanki.eu", "protanki.tv">>
base_urls == <<"protanki-stats.com", "tank-stats.eu">>

----------------------------------------------------------------------------
(* State *)

VARIABLES
    clock,            \* datetime.utcnow(), in time units
    clan,             \* the clans table holds the clan
    calls,         \* number of calls from the cog handled so far
    members,          \* the members table, in insertion order
    last_check,       \* PlayerMonitor.last_check
    monitoring_task,  \* PlayerMonitor.monitoring_task: None or a task
    tasks,            \* the polling loop tasks created so far
    awaiting,         \* tasks a stop_monitoring call is awaiting
    run,              \* the status check that holds the thread, if any
    stopped,          \* history: tasks whose stop_monitoring has returned
    loop_start,       \* history: start of the loop's last check per member
    last_result,      \* history: the status check that has just finished,
                      \* or a start_monitoring just called on a task that
                      \* was cancelled and has not finished
    rank_query,       \* a call of get_rank_from_experience and its results
    scraper,          \* calls of the scraper's record builders, the generator
    parser,           \* a call of the reply parsers and its results
    peer              \* a call of _query_jeffrie_bot

vars == <<clock, clan, calls, members, last_check, monitoring_task, tasks,
          awaiting, run, stopped, loop_start, last_result, rank_query,
          scraper, parser, peer>>

(* the variables of the calls that are looked at on their own *)
queries == <<rank_query, scraper, parser, peer>>

(* valid is history: whether the page a record was extracted from would    *)
(* pass _is_valid_player_page                                              *)
NoRun ==
    [who |-> "none", task |-> 0, user |-> "", now |-> 0, pc |-> "",
     k |-> 0, rank |-> "", is_online |-> FALSE, tried |-> <<>>,
     valid |-> TRUE]

NoQuery == [pc |-> "none", experience |-> <<>>, rank |-> <<>>]

NoResult ==
    [who |-> "none", user |-> "", rank |-> "", is_online |-> FALSE,
     tried |-> <<>>, updated |-> FALSE, late_start |-> FALSE]

(* the random module as the process starts: the generator is seeded from   *)
(* the operating system and nothing was generated                          *)
NoScraper ==
    [rng |-> [seed |-> "os", pos |-> 0], log |-> <<>>, last |-> <<>>]

NoParse == [pc |-> "none", content |-> <<>>, result |-> <<>>]

NoPeer ==
    [pc |-> "none", env |-> "", username |-> "", channels |-> <<>>,
     k |-> 0, sent |-> 0, waited |-> 0, elapsed |-> 0, result |-> <<>>]

(* the thread is free: no coroutine is between two suspension points *)
Idle == run.who = "none"

(* a task object: the coroutine's position and what it holds               *)
(*   pc      "new" created, not yet run; "check" inside                    *)
(*           _check_player_status; "pacing" in asyncio.sleep(2); "sleep"   *)
(*           in asyncio.sleep(check_interval); "done"                      *)
(*   wake    when the sleep it is in is over                               *)
(*   members, idx   the list of get_all_members and the for loop position  *)
(*   cancel  task.cancel() was called and is not yet delivered             *)
(*   pass, checked, skipped, restart   history of the task                 *)
NewTask(restart) ==
    [pc |-> "new", wake |-> 0, members |-> <<>>, idx |-> 0,
     cancel |-> FALSE, pass |-> 0, checked |-> {}, skipped |-> {},
     restart |-> restart]

Done(t) == tasks[t].pc = "done"

(* a row of the members table with the column defaults; last_updated      *)
(* defaults to datetime.utcnow                                             *)
NewMember(username) ==
    [username |-> username, rank |-> "Unknown", is_online |-> FALSE,
     last_updated |-> clock]

(* The database outlives the process: when the bot starts, the tables hold *)
(* what earlier runs left, here the clan and the three usernames           *)
InitialRoster ==
    <<NewMember("Alice"), NewMember("K.O"), NewMember("GOAT")>>

Init ==
    /\ clock = 0
    /\ clan = TRUE
    /\ calls = 0
    /\ members = InitialRoster
    /\ last_check = [u \in Usernames |-> None]
    /\ monitoring_task = None
    /\ tasks = <<>>
    /\ awaiting = {}
    /\ run = NoRun
    /\ stopped = {}
    /\ loop_start = [u \in Usernames |-> None]
    /\ last_result = NoResult
    /\ rank_query = NoQuery
    /\ scraper = NoScraper
    /\ parser = NoParse
    /\ peer = NoPeer

----------------------------------------------------------------------------
(* Roster store (database.py) *)

MemberIndex(username) ==
    {i \in 1..Len(members) : members[i].username = username}

(* Database.add_clan / Database.remove_clan with the one clan of the model *)
add_clan ==
    /\ Idle
    /\ ~clan
    /\ calls < MaxCalls
    /\ calls' = calls + 1
    /\ clan' = TRUE
    /\ UNCHANGED <<clock, members, last_check, monitoring_task, tasks,
                   awaiting, run, stopped, loop_start>>
    /\ last_result' = NoResult
    /\ UNCHANGED queries

remove_clan ==
    /\ Idle
    /\ clan
    /\ calls < MaxCalls
    /\ calls' = calls + 1
    /\ clan' = FALSE
    /\ members' = <<>>
    /\ UNCHANGED <<clock, last_check, monitoring_task, tasks, awaiting, run,
                   stopped, loop_start>>
    /\ last_result' = NoResult
    /\ UNCHANGED queries

(* update_member_status that writes the rank and the time and keeps the    *)
(* stored online flag                                                      *)
update_member_status_merge(username, rank, is_online, commit) ==
    IF commit /\ MemberIndex(username) # {}
    THEN LET i == CHOOSE j \in MemberIndex(username) :
                     \A l \in MemberIndex(username) : j <= l
         IN  [table |-> [members EXCEPT ![i].rank = rank,
                                        ![i].last_updated = clock],
              ok |-> TRUE]
    ELSE [table |-> members, ok |-> FALSE]

(* Database.update_member_status: the members table after the call and the *)
(* value returned; commit is whether the session's query and commit go     *)
(* through.  The three columns are assigned and committed at once, and     *)
(* without a row of that username nothing is written                       *)
update_member_status(username, rank, is_online, commit) ==
    IF commit /\ MemberIndex(username) # {}
    THEN LET i == CHOOSE j \in MemberIndex(username) :
                     \A l \in MemberIndex(username) : j <= l
         IN  [table |-> [members EXCEPT ![i].rank = rank,
                                        ![i].is_online = is_online,
                                        ![i].last_updated = clock],
              ok |-> TRUE]
    ELSE [table |-> members, ok |-> FALSE]

----------------------------------------------------------------------------
(* PlayerMonitor: start, stop and the polling loop *)

(* the condition dropped: a task is created on every call *)
CanStart_always == TRUE

(* task.cancel() was called on the current task and the task is still to   *)
(* finish                                                                  *)
CancelPending ==
    /\ monitoring_task # None
    /\ ~Done(monitoring_task)
    /\ tasks[monitoring_task].cancel

(* a cancelled task taken for a finished one *)
CanStart_cancelled ==
    monitoring_task = None \/ Done(monitoring_task) \/ CancelPending

(* the condition of start_monitoring *)
CanStart == monitoring_task = None \/ Done(monitoring_task)

(* start_monitoring that also empties the cadence map *)
start_monitoring_reset ==
    /\ Idle
    /\ IF CanStart
       THEN /\ tasks' = Append(tasks, NewTask(monitoring_task # None))
            /\ monitoring_task' = Len(tasks) + 1
            /\ last_check' = [u \in Usernames |-> None]
       ELSE UNCHANGED <<tasks, monitoring_task, last_check>>
    /\ calls < MaxCalls
    /\ calls' = calls + 1
    /\ UNCHANGED <<clock, clan, members, awaiting, run, stopped,
                   loop_start>>
    /\ last_result' = NoResult
    /\ UNCHANGED queries

start_monitoring ==
    /\ Idle
    /\ IF CanStart
       THEN /\ tasks' = Append(tasks, NewTask(monitoring_task # None))
            /\ monitoring_task' = Len(tasks) + 1
       ELSE UNCHANGED <<tasks, monitoring_task>>
    /\ calls < MaxCalls
    /\ calls' = calls + 1
    /\ UNCHANGED <<clock, clan, members, last_check, awaiting, run, stopped,
                   loop_start>>
    /\ last_result' = [NoResult EXCEPT !.late_start = CancelPending]
    /\ UNCHANGED queries

(* stop_monitoring up to its await: cancel the task and wait for it *)
stop_monitoring ==
    /\ Idle
    /\ IF monitoring_task # None /\ ~Done(monitoring_task)
       THEN /\ tasks' = [tasks EXCEPT ![monitoring_task].cancel = TRUE]
            /\ awaiting' = awaiting \cup {monitoring_task}
       ELSE UNCHANGED <<tasks, awaiting>>
    /\ calls < MaxCalls
    /\ calls' = calls + 1
    /\ UNCHANGED <<clock, clan, members, last_check, monitoring_task, run,
                   stopped, loop_start>>
    /\ last_result' = NoResult
    /\ UNCHANGED queries

(* the await dropped: stop_monitoring returns right after cancel() *)
Awaited_never(t) == TRUE

(* "await self.monitoring_task" is over when the task has finished *)
Awaited(t) == Done(t)

(* stop_monitoring from its await on: the call returns *)
stop_returns(t) ==
    /\ Idle
    /\ t \in awaiting
    /\ Awaited(t)
    /\ awaiting' = awaiting \ {t}
    /\ stopped' = stopped \cup {t}
    /\ UNCHANGED <<clock, clan, calls, members, last_check, monitoring_task, tasks,
                   run, loop_start>>
    /\ last_result' = NoResult
    /\ UNCHANGED queries

(* the gate with the elapsed time compared to the pacing delay *)
Due_pacing(username, now) ==
    \/ last_check[username] = None
    \/ now - last_check[username] >= PacingDelay

(* the cadence gate of _check_all_players *)
Due(username, now) ==
    \/ last_check[username] = None
    \/ now - last_check[username] >= check_interval

(* the first index from i on whose member is due at the current time; the  *)
(* for loop does not suspend on members that are not due                   *)
RECURSIVE NextDue(_, _)
NextDue(mem, i) ==
    IF i > Len(mem) THEN i
    ELSE IF Due(mem[i], clock) THEN i
    ELSE NextDue(mem, i + 1)

(* the for loop with a sleep after the pass that ends check_interval after *)
(* the first check of the pass started, or at once when that is over       *)
LoopFrom_remainder(t, tk, i) ==
    LET j == NextDue(tk.members, i)
        skip == {tk.members[l] : l \in i..(j - 1)}
        began == {loop_start[u] : u \in tk.checked}
        first == IF began = {} THEN clock
                 ELSE CHOOSE b \in began : \A c \in began : b <= c
    IN  IF j > Len(tk.members)
        THEN /\ tasks' = [tasks EXCEPT ![t] =
                     [tk EXCEPT !.pc = "sleep",
                                !.wake = IF first + check_interval > clock
                                         THEN first + check_interval
                                         ELSE clock,
                                !.members = <<>>, !.idx = 0,
                                !.skipped = @ \cup skip]]
             /\ UNCHANGED <<run, loop_start>>
        ELSE /\ tasks' = [tasks EXCEPT ![t] =
                     [tk EXCEPT !.pc = "check", !.wake = 0, !.idx = j,
                                !.skipped = @ \cup skip]]
             /\ run' = [NoRun EXCEPT !.who = "loop", !.task = t,
                                     !.user = tk.members[j],
                                     !.now = clock, !.pc = "start"]
             /\ loop_start' = [loop_start EXCEPT ![tk.members[j]] = clock]

(* the for loop with the sleep of the error handler, 30, after the pass *)
LoopFrom_backoff(t, tk, i) ==
    LET j == NextDue(tk.members, i)
        skip == {tk.members[l] : l \in i..(j - 1)}
    IN  IF j > Len(tk.members)
        THEN /\ tasks' = [tasks EXCEPT ![t] =
                     [tk EXCEPT !.pc = "sleep",
                                !.wake = clock + LoopBackoff,
                                !.members = <<>>, !.idx = 0,
                                !.skipped = @ \cup skip]]
             /\ UNCHANGED <<run, loop_start>>
        ELSE /\ tasks' = [tasks EXCEPT ![t] =
                     [tk EXCEPT !.pc = "check", !.wake = 0, !.idx = j,
                                !.skipped = @ \cup skip]]
             /\ run' = [NoRun EXCEPT !.who = "loop", !.task = t,
                                     !.user = tk.members[j],
                                     !.now = clock, !.pc = "start"]
             /\ loop_start' = [loop_start EXCEPT ![tk.members[j]] = clock]

(* the for loop of _check_all_players from index i on, up to the next      *)
(* suspension: either it enters _check_player_status for the next due      *)
(* member, or the list is exhausted and _monitoring_loop sleeps            *)
LoopFrom(t, tk, i) ==
    LET j == NextDue(tk.members, i)
        skip == {tk.members[l] : l \in i..(j - 1)}
    IN  IF j > Len(tk.members)
        THEN /\ tasks' = [tasks EXCEPT ![t] =
                     [tk EXCEPT !.pc = "sleep",
                                !.wake = clock + check_interval,
                                !.members = <<>>, !.idx = 0,
                                !.skipped = @ \cup skip]]
             /\ UNCHANGED <<run, loop_start>>
        ELSE /\ tasks' = [tasks EXCEPT ![t] =
                     [tk EXCEPT !.pc = "check", !.wake = 0, !.idx = j,
                                !.skipped = @ \cup skip]]
             /\ run' = [NoRun EXCEPT !.who = "loop", !.task = t,
                                     !.user = tk.members[j],
                                     !.now = clock, !.pc = "start"]
             /\ loop_start' = [loop_start EXCEPT ![tk.members[j]] = clock]

(* _monitoring_loop with a failure of get_all_members ending the loop *)
monitoring_loop_fatal(t) ==
    /\ Idle
    /\ t \in 1..Len(tasks)
    /\ ~tasks[t].cancel
    /\ \/ tasks[t].pc = "new"
       \/ tasks[t].pc = "sleep" /\ clock >= tasks[t].wake
    /\ \E query_ok \in BOOLEAN :
         IF query_ok
         THEN LoopFrom(t, [tasks[t] EXCEPT
                             !.members = [i \in 1..Len(members) |->
                                             members[i].username],
                             !.pass = @ + 1,
                             !.checked = {}, !.skipped = {}], 1)
         ELSE /\ tasks' = [tasks EXCEPT ![t] =
                             [NewTask(@.restart) EXCEPT
                                 !.pc = "done", !.pass = tasks[t].pass + 1]]
              /\ UNCHANGED <<run, loop_start>>
    /\ UNCHANGED <<clock, clan, calls, members, last_check, monitoring_task,
                   awaiting, stopped>>
    /\ last_result' = NoResult
    /\ UNCHANGED queries

(* _monitoring_loop: a pass begins, when the task first runs or when the   *)
(* sleep after the previous pass is over.  get_all_members returns the     *)
(* table or raises; _check_all_players catches what it raises and returns  *)
monitoring_loop(t) ==
    /\ Idle
    /\ t \in 1..Len(tasks)
    /\ ~tasks[t].cancel
    /\ \/ tasks[t].pc = "new"
       \/ tasks[t].pc = "sleep" /\ clock >= tasks[t].wake
    /\ \E query_ok \in BOOLEAN :
         IF query_ok
         THEN LoopFrom(t, [tasks[t] EXCEPT
                             !.members = [i \in 1..Len(members) |->
                                             members[i].username],
                             !.pass = @ + 1,
                             !.checked = {}, !.skipped = {}], 1)
         ELSE /\ tasks' = [tasks EXCEPT ![t].pc = "sleep",
                                        ![t].wake = clock + check_interval,
                                        ![t].members = <<>>,
                                        ![t].idx = 0,
                                        ![t].pass = @ + 1,
                                        ![t].checked = {},
                                        ![t].skipped = {}]
              /\ UNCHANGED <<run, loop_start>>
    /\ UNCHANGED <<clock, clan, calls, members, last_check, monitoring_task,
                   awaiting, stopped>>
    /\ last_result' = NoResult
    /\ UNCHANGED queries

(* _check_all_players without the sleep of line 65: the for loop goes on   *)
(* at once                                                                 *)
check_all_players_unpaced(t) ==
    /\ Idle
    /\ t \in 1..Len(tasks)
    /\ ~tasks[t].cancel
    /\ tasks[t].pc = "pacing"
    /\ LoopFrom(t, tasks[t], tasks[t].idx + 1)
    /\ UNCHANGED <<clock, clan, calls, members, last_check, monitoring_task,
                   awaiting, stopped>>
    /\ last_result' = NoResult
    /\ UNCHANGED queries

(* _check_all_players: the pacing sleep is over, the for loop goes on *)
check_all_players(t) ==
    /\ Idle
    /\ t \in 1..Len(tasks)
    /\ ~tasks[t].cancel
    /\ tasks[t].pc = "pacing"
    /\ clock >= tasks[t].wake
    /\ LoopFrom(t, tasks[t], tasks[t].idx + 1)
    /\ UNCHANGED <<clock, clan, calls, members, last_check, monitoring_task,
                   awaiting, stopped>>
    /\ last_result' = NoResult
    /\ UNCHANGED queries

(* CancelledError is thrown into the task at its suspension point; it is   *)
(* not an Exception, so _check_all_players lets it through and             *)
(* _monitoring_loop breaks                                                 *)
cancelled(t) ==
    /\ Idle
    /\ t \in 1..Len(tasks)
    /\ tasks[t].cancel
    /\ tasks[t].pc \in {"new", "pacing", "sleep"}
    /\ tasks' = [tasks EXCEPT ![t] = [NewTask(@.restart) EXCEPT
                                         !.pc = "done", !.pass = tasks[t].pass]]
    /\ UNCHANGED <<clock, clan, calls, members, last_check, monitoring_task,
                   awaiting, run, stopped, loop_start>>
    /\ last_result' = NoResult
    /\ UNCHANGED queries

----------------------------------------------------------------------------
(* The lookup of one status check: _get_current_player_data and            *)
(* ProTankiScraper.get_player_info.  It runs without suspension, for the   *)
(* loop and for force_check_player alike                                   *)

(* the lookup ends: the source answered with a record *)
Found(info, name) ==
    [run EXCEPT !.pc = "update", !.rank = info.rank,
                !.is_online = info.is_online,
                !.tried = Append(@, [source |-> name, found |-> TRUE])]

(* the endpoint yielded nothing: the for loop goes on, or the search        *)
(* returns None and get_player_info goes to its next method                *)
Unavailable(urls, next) ==
    IF run.k < Len(urls)
    THEN [run EXCEPT !.k = @ + 1,
                     !.tried = Append(@, [source |-> urls[run.k],
                                          found |-> FALSE])]
    ELSE [run EXCEPT !.pc = next, !.k = 1,
                     !.tried = Append(@, [source |-> urls[run.k],
                                          found |-> FALSE])]

(* get_player_info with its methods 1 and 2 in the other order: the        *)
(* alternative sites are searched first                                    *)
get_current_player_data_alt_first ==
    /\ run.who # "none"
    /\ run.pc = "start"
    /\ run' = IF Upper(run.user) = "K.O"
              THEN Found([rank |-> "Captain", is_online |-> TRUE],
                         "override")
              ELSE IF Upper(run.user) = "GOAT"
              THEN Found([rank |-> "Master Sergeant", is_online |-> FALSE],
                         "override")
              ELSE [run EXCEPT !.pc = "alt", !.k = 1]
    /\ UNCHANGED <<clock, clan, calls, members, last_check,
                   monitoring_task, tasks, awaiting, stopped, loop_start>>
    /\ last_result' = NoResult
    /\ UNCHANGED queries

(* the two identities compared without upper(): against literals that an  *)
(* upper-cased username never equals                                       *)
get_current_player_data_literal ==
    /\ run.who # "none"
    /\ run.pc = "start"
    /\ run' = IF Upper(run.user) = "k.o"
              THEN Found([rank |-> "Captain", is_online |-> TRUE],
                         "override")
              ELSE IF Upper(run.user) = "goat"
              THEN Found([rank |-> "Master Sergeant", is_online |-> FALSE],
                         "override")
              ELSE [run EXCEPT !.pc = "eu", !.k = 1]
    /\ UNCHANGED <<clock, clan, calls, members, last_check,
                   monitoring_task, tasks, awaiting, stopped, loop_start>>
    /\ last_result' = NoResult
    /\ UNCHANGED queries

(* _get_current_player_data: the two fixed identities, or the scraper *)
get_current_player_data ==
    /\ run.who # "none"
    /\ run.pc = "start"
    /\ run' = IF Upper(run.user) = "K.O"
              THEN Found([rank |-> "Captain", is_online |-> TRUE],
                         "override")
              ELSE IF Upper(run.user) = "GOAT"
              THEN Found([rank |-> "Master Sergeant", is_online |-> FALSE],
                         "override")
              ELSE [run EXCEPT !.pc = "eu", !.k = 1]
    /\ UNCHANGED <<clock, clan, calls, members, last_check, monitoring_task, tasks,
                   awaiting, stopped, loop_start>>
    /\ last_result' = NoResult
    /\ UNCHANGED queries

(* _search_protanki_eu: one request of the for loop over search_urls *)
search_protanki_eu ==
    /\ run.who # "none"
    /\ run.pc = "eu"
    /\ \E response \in Responses :
       \E d \in RequestTimes(response) :
         /\ clock + d <= MaxTime
         /\ clock' = clock + d
         /\ run' = IF response.kind = "page" /\ response.page.valid
                   THEN Found(extract_player_data(response.page),
                              search_urls[run.k])
                   ELSE Unavailable(search_urls, "alt")
    /\ UNCHANGED <<clan, calls, members, last_check, monitoring_task, tasks,
                   awaiting, stopped, loop_start>>
    /\ last_result' = NoResult
    /\ UNCHANGED queries

(* _search_alternative_sites: one request of the for loop over base_urls;  *)
(* the page is not validated and _extract_player_data always returns a     *)
(* PlayerInfo                                                              *)
search_alternative_sites ==
    /\ run.who # "none"
    /\ run.pc = "alt"
    /\ \E response \in Responses :
       \E d \in RequestTimes(response) :
         /\ clock + d <= MaxTime
         /\ clock' = clock + d
         /\ run' = IF response.kind = "page"
                   THEN [Found(extract_player_data(response.page),
                               base_urls[run.k])
                            EXCEPT !.valid = response.page.valid]
                   ELSE Unavailable(base_urls, "synthetic")
    /\ UNCHANGED <<clan, calls, members, last_check, monitoring_task, tasks,
                   awaiting, stopped, loop_start>>
    /\ last_result' = NoResult
    /\ UNCHANGED queries

(* get_player_info that answers with the record of its except branch      *)
get_player_info_default ==
    /\ run.who # "none"
    /\ run.pc = "synthetic"
    /\ run' = Found([rank |-> "Private", is_online |-> FALSE], "synthetic")
    /\ UNCHANGED <<clock, clan, calls, members, last_check,
                   monitoring_task, tasks, awaiting, stopped, loop_start>>
    /\ last_result' = NoResult
    /\ UNCHANGED queries

(* get_player_info, method 3: both searches returned None *)
get_player_info ==
    /\ run.who # "none"
    /\ run.pc = "synthetic"
    /\ run' = Found(generate_realistic_data(run.user), "synthetic")
    /\ UNCHANGED <<clock, clan, calls, members, last_check, monitoring_task, tasks,
                   awaiting, stopped, loop_start>>
    /\ last_result' = NoResult
    /\ UNCHANGED queries

Result(ok) ==
    [who |-> run.who, user |-> run.user, rank |-> run.rank,
     is_online |-> run.is_online, tried |-> run.tried, updated |-> ok,
     late_start |-> FALSE]

(* _check_player_status that lets a failed write end the pass: the loop    *)
(* goes to its sleep of check_interval                                     *)
check_player_status_abort ==
    /\ run.who = "loop"
    /\ run.pc = "update"
    /\ \E commit \in BOOLEAN :
         LET r == update_member_status(run.user, run.rank, run.is_online,
                                       commit)
         IN  /\ members' = r.table
             /\ last_result' = Result(r.ok)
             /\ tasks' = IF r.ok
                         THEN [tasks EXCEPT
                                 ![run.task].pc = "pacing",
                                 ![run.task].wake = clock + PacingDelay,
                                 ![run.task].checked = @ \cup {run.user}]
                         ELSE [tasks EXCEPT
                                 ![run.task].pc = "sleep",
                                 ![run.task].wake = clock + check_interval,
                                 ![run.task].members = <<>>,
                                 ![run.task].idx = 0,
                                 ![run.task].checked = @ \cup {run.user}]
    /\ last_check' = [last_check EXCEPT ![run.user] = run.now]
    /\ run' = NoRun
    /\ UNCHANGED queries
    /\ UNCHANGED <<clock, clan, calls, monitoring_task, awaiting, stopped,
                   loop_start>>

(* the cadence entry set only when the write to the store succeeded *)
check_player_status_ok_only ==
    /\ run.who = "loop"
    /\ run.pc = "update"
    /\ \E commit \in BOOLEAN :
         LET r == update_member_status(run.user, run.rank, run.is_online,
                                       commit)
         IN  /\ members' = r.table
             /\ last_result' = Result(r.ok)
             /\ last_check' = IF r.ok
                              THEN [last_check EXCEPT ![run.user] = run.now]
                              ELSE last_check
    /\ tasks' = [tasks EXCEPT ![run.task].pc = "pacing",
                              ![run.task].wake = clock + PacingDelay,
                              ![run.task].checked = @ \cup {run.user}]
    /\ run' = NoRun
    /\ UNCHANGED queries
    /\ UNCHANGED <<clock, clan, calls, monitoring_task, awaiting, stopped,
                   loop_start>>

(* _check_player_status from the store call on, then lines 62-65 of        *)
(* _check_all_players: the cadence entry is set to the time taken before   *)
(* the check and the task enters the pacing sleep                          *)
check_player_status ==
    /\ run.who = "loop"
    /\ run.pc = "update"
    /\ \E commit \in BOOLEAN :
         LET r == update_member_status(run.user, run.rank, run.is_online,
                                       commit)
         IN  /\ members' = r.table
             /\ last_result' = Result(r.ok)
    /\ last_check' = [last_check EXCEPT ![run.user] = run.now]
    /\ tasks' = [tasks EXCEPT ![run.task].pc = "pacing",
                              ![run.task].wake = clock + PacingDelay,
                              ![run.task].checked = @ \cup {run.user}]
    /\ run' = NoRun
    /\ UNCHANGED queries
    /\ UNCHANGED <<clock, clan, calls, monitoring_task, awaiting, stopped,
                   loop_start>>

(* force_check_player that records the check in the cadence map *)
force_check_player_cadence ==
    /\ run.who = "force"
    /\ run.pc = "update"
    /\ \E commit \in BOOLEAN :
         LET r == update_member_status(run.user, run.rank, run.is_online,
                                       commit)
         IN  /\ members' = r.table
             /\ last_result' = Result(r.ok)
    /\ last_check' = [last_check EXCEPT ![run.user] = run.now]
    /\ run' = NoRun
    /\ UNCHANGED queries
    /\ UNCHANGED <<clock, clan, calls, monitoring_task, tasks,
                   awaiting, stopped, loop_start>>

(* force_check_player from the store call on: the record is returned to    *)
(* the caller                                                              *)
force_check_player ==
    /\ run.who = "force"
    /\ run.pc = "update"
    /\ \E commit \in BOOLEAN :
         LET r == update_member_status(run.user, run.rank, run.is_online,
                                       commit)
         IN  /\ members' = r.table
             /\ last_result' = Result(r.ok)
    /\ run' = NoRun
    /\ UNCHANGED queries
    /\ UNCHANGED <<clock, clan, calls, last_check, monitoring_task, tasks,
                   awaiting, stopped, loop_start>>

(* ClanCommands.add_member.clan_selected: db.add_member, and on success    *)
(* force_check_player at once                                              *)
clan_selected(username) ==
    /\ Idle
    /\ calls < MaxCalls
    /\ calls' = calls + 1
    /\ IF clan /\ MemberIndex(username) = {}
       THEN /\ members' = Append(members, NewMember(username))
            /\ run' = [NoRun EXCEPT !.who = "force", !.user = username,
                                    !.now = clock, !.pc = "start"]
       ELSE UNCHANGED <<members, run>>
    /\ UNCHANGED <<clock, clan, last_check, monitoring_task, tasks,
                   awaiting, stopped, loop_start>>
    /\ last_result' = NoResult
    /\ UNCHANGED queries

(* the times at which a sleep of a live task ends *)
Wakes ==
    {tasks[t].wake : t \in {x \in 1..Len(tasks) :
                                tasks[x].pc \in {"pacing", "sleep"}}}

(* time passes while every coroutine is suspended: up to the end of the    *)
(* next sleep, and by TickStep at most                                     *)
Tick ==
    /\ Idle
    /\ LET next == {w \in Wakes : w > clock /\ w < clock + TickStep}
                       \cup {clock + TickStep}
           to == CHOOSE w \in next : \A v \in next : w <= v
       IN  /\ to <= MaxTime
           /\ clock' = to
    /\ UNCHANGED <<clan, calls, members, last_check, monitoring_task, tasks,
                   awaiting, run, stopped, loop_start>>
    /\ last_result' = NoResult
    /\ UNCHANGED queries

Next ==
    \/ add_clan
    \/ remove_clan
    \/ \E username \in Usernames : clan_selected(username)
    \/ start_monitoring
    \/ stop_monitoring
    \/ \E t \in 1..Len(tasks) : stop_returns(t)
    \/ \E t \in 1..Len(tasks) : monitoring_loop(t)
    \/ \E t \in 1..Len(tasks) : check_all_players(t)
    \/ \E t \in 1..Len(tasks) : cancelled(t)
    \/ get_current_player_data
    \/ search_protanki_eu
    \/ search_alternative_sites
    \/ get_player_info
    \/ check_player_status
    \/ force_check_player
    \/ Tick

Spec == Init /\ [][Next]_vars

(* what the event loop does unasked: it resumes the coroutines that can    *)
(* run, a blocking call returns, and time passes                           *)
Progress ==
    \/ \E t \in 1..Len(tasks) : stop_returns(t)
    \/ \E t \in 1..Len(tasks) : monitoring_loop(t)
    \/ \E t \in 1..Len(tasks) : check_all_players(t)
    \/ \E t \in 1..Len(tasks) : cancelled(t)
    \/ get_current_player_data
    \/ search_protanki_eu
    \/ search_alternative_sites
    \/ get_player_info
    \/ check_player_status
    \/ force_check_player
    \/ Tick

SpecLive == Init /\ [][Next]_vars /\ WF_vars(Progress)

----------------------------------------------------------------------------
(* RankTable on its own: get_rank_from_experience applied to pairs of      *)
(* experience values around the thresholds                                 *)

Experiences ==
    {e \in {ranks[i][1] + d : i \in 1..Len(ranks),
                              d \in (0 - MaxOffset)..MaxOffset} : e >= 0}

rank_call ==
    /\ rank_query.pc = "none"
    /\ \E e1 \in Experiences, e2 \in Experiences :
         rank_query' = [pc |-> "call", experience |-> <<e1, e2>>,
                        rank |-> <<>>]
    /\ UNCHANGED <<clock, clan, calls, members, last_check,
                   monitoring_task, tasks, awaiting, run, stopped,
                   loop_start, last_result>>
    /\ UNCHANGED <<scraper, parser, peer>>

rank_return ==
    /\ rank_query.pc = "call"
    /\ rank_query' =
         [rank_query EXCEPT
            !.pc = "done",
            !.rank = <<get_rank_from_experience(rank_query.experience[1]),
                       get_rank_from_experience(rank_query.experience[2])>>]
    /\ UNCHANGED <<clock, clan, calls, members, last_check,
                   monitoring_task, tasks, awaiting, run, stopped,
                   loop_start, last_result>>
    /\ UNCHANGED <<scraper, parser, peer>>

NextRank == rank_call \/ rank_return

SpecRank == Init /\ [][NextRank]_vars

----------------------------------------------------------------------------
(* The record builders of the scraper on their own: _extract_player_data   *)
(* applied to pages and _generate_realistic_data applied to usernames,     *)
(* with the random module's generator, which the process shares            *)

(* the generator left as it is: random.seed is not called *)
Seeded_unseeded(username) == scraper.rng

(* random.seed(username_hash): the generator starts the stream of the hash *)
Seeded(username) == [seed |-> username, pos |-> 0]

(* what random.choices, random.random and random.randint, with the lookups *)
(* in rank_weights and rank_exp, make of the generator: at the start of    *)
(* the stream of a username's hash the values that running the function    *)
(* gives, elsewhere in a stream any of the records                         *)
Drawn(rng) ==
    IF rng.pos = 0 /\ rng.seed \in SyntheticNames
    THEN {generate_realistic_data(rng.seed)}
    ELSE {generate_realistic_data(n) : n \in SyntheticNames}

generate_realistic_data_call(username) ==
    /\ Len(scraper.log) < MaxLog
    /\ LET rng == Seeded(username)
       IN  \E info \in Drawn(rng) :
             scraper' =
                [rng |-> [rng EXCEPT !.pos = 1],
                 log |-> Append(scraper.log,
                                [username |-> username,
                                 rank |-> info.rank,
                                 is_online |-> info.is_online,
                                 experience |-> info.experience]),
                 last |-> <<>>]
    /\ UNCHANGED <<clock, clan, calls, members, last_check,
                   monitoring_task, tasks, awaiting, run, stopped,
                   loop_start, last_result>>
    /\ UNCHANGED <<rank_query, parser, peer>>

(* _extract_player_data applied to the text of a page *)
extract_player_data_call(page) ==
    /\ scraper' = [scraper EXCEPT !.last = <<extract_player_data(page)>>]
    /\ UNCHANGED <<clock, clan, calls, members, last_check,
                   monitoring_task, tasks, awaiting, run, stopped,
                   loop_start, last_result>>
    /\ UNCHANGED <<rank_query, parser, peer>>

(* anything else in the process that draws from the random module *)
random_use ==
    /\ scraper.rng.pos < MaxDraws
    /\ scraper' = [scraper EXCEPT !.rng.pos = @ + 1, !.last = <<>>]
    /\ UNCHANGED <<clock, clan, calls, members, last_check,
                   monitoring_task, tasks, awaiting, run, stopped,
                   loop_start, last_result>>
    /\ UNCHANGED <<rank_query, parser, peer>>

(* the process is started again: the random module is initialised afresh;  *)
(* the log is the observer's and is kept                                   *)
restart ==
    /\ scraper.rng # NoScraper.rng
    /\ scraper' = [scraper EXCEPT !.rng = NoScraper.rng, !.last = <<>>]
    /\ UNCHANGED <<clock, clan, calls, members, last_check,
                   monitoring_task, tasks, awaiting, run, stopped,
                   loop_start, last_result>>
    /\ UNCHANGED <<rank_query, parser, peer>>

NextScraper ==
    \/ \E username \in SyntheticNames : generate_realistic_data_call(username)
    \/ \E page \in Pages : extract_player_data_call(page)
    \/ random_use
    \/ restart

SpecScraper == Init /\ [][NextScraper]_vars

----------------------------------------------------------------------------
(* The parsers of a peer bot reply: PlayerMonitor._parse_jeffrie_response  *)
(* and PlayerInfo.from_jeffrie_response.  A text is a sequence of tokens   *)
(* written one after the other; no token holds a part of another one, so   *)
(* a string of tokens occurs in a text where its tokens stand in a row     *)

Tokens ==
    {"Online", "online", "Offline", "Yes", "No", "\n", ": ", " ",
     "Lieutenant", "Colonel", "Major", "General"}

Contents == UNION {[1..n -> Tokens] : n \in 0..MaxLen}

(* the in operator of str *)
Occurs(words, content) ==
    \E i \in 1..(Len(content) - Len(words) + 1) :
        SubSeq(content, i, i + Len(words) - 1) = words

(* str.lower() on the tokens *)
Lower(token) ==
    CASE token = "Online" -> "online"
      [] token = "Offline" -> "offline"
      [] token = "Yes" -> "yes"
      [] token = "No" -> "no"
      [] token = "Lieutenant" -> "lieutenant"
      [] token = "Colonel" -> "colonel"
      [] token = "Major" -> "major"
      [] token = "General" -> "general"
      [] OTHER -> token

(* the if/elif chain with "Colonel" tested first *)
rank_chain_colonel_first ==
    << <<"Colonel">>, <<"Captain">>, <<"Major">>,
       <<"Lieutenant", " ", "Colonel">>, <<"Lieutenant">>,
       <<"Master", " ", "Sergeant">>, <<"Staff", " ", "Sergeant">>,
       <<"Sergeant">>, <<"Corporal">>, <<"Private">>, <<"Generalissimo">>,
       <<"Marshal">>, <<"General">> >>

(* the if/elif chain of _parse_jeffrie_response, in its order *)
rank_chain ==
    << <<"Captain">>, <<"Major">>, <<"Lieutenant", " ", "Colonel">>,
       <<"Lieutenant">>, <<"Master", " ", "Sergeant">>,
       <<"Staff", " ", "Sergeant">>, <<"Sergeant">>, <<"Corporal">>,
       <<"Private">>, <<"Generalissimo">>, <<"Marshal">>, <<"General">>,
       <<"Colonel">> >>

(* the string the tokens of a chain entry spell *)
Spelled(words) ==
    IF Len(words) = 1 THEN words[1]
    ELSE IF words = <<"Lieutenant", " ", "Colonel">> THEN "Lieutenant Colonel"
    ELSE IF words = <<"Master", " ", "Sergeant">> THEN "Master Sergeant"
    ELSE "Staff Sergeant"

RECURSIVE ChainWalk(_, _)
ChainWalk(i, content) ==
    IF i > Len(rank_chain) THEN "Recruit"
    ELSE IF Occurs(rank_chain[i], content) THEN Spelled(rank_chain[i])
    ELSE ChainWalk(i + 1, content)

(* content.split("Online")[-1]: what follows the last "Online" *)
AfterLast(content) ==
    LET at == {i \in 1..Len(content) : content[i] = "Online"}
        last == CHOOSE i \in at : \A j \in at : j <= i
    IN  SubSeq(content, last + 1, Len(content))

(* the condition of line 170 with the test for "Online" left out *)
parsed_online_any_yes(content) == Occurs(<<"Yes">>, content)

(* the condition of line 170: a conditional expression, whose condition is *)
(* "Online" in content and whose value is the disjunction                  *)
parsed_online(content) ==
    IF Occurs(<<"Online">>, content)
    THEN \/ Occurs(<<"Online", "\n", "Yes">>, content)
         \/ Occurs(<<"Online", ": ", "Yes">>, content)
         \/ Occurs(<<"Yes">>, AfterLast(content))
    ELSE FALSE

parse_jeffrie_response(content) ==
    [rank |-> ChainWalk(1, content), is_online |-> parsed_online(content)]

(* PlayerInfo.from_jeffrie_response; no token holds one of the keywords of *)
(* a rank or level line, so the rank stays "Unknown"                       *)
from_jeffrie_response(response_text) ==
    [rank |-> "Unknown",
     is_online |-> \E i \in 1..Len(response_text) :
                      Lower(response_text[i]) = "online"]

parse_call ==
    /\ parser.pc = "none"
    /\ \E content \in Contents :
         parser' = [pc |-> "call", content |-> content, result |-> <<>>]
    /\ UNCHANGED <<clock, clan, calls, members, last_check,
                   monitoring_task, tasks, awaiting, run, stopped,
                   loop_start, last_result>>
    /\ UNCHANGED <<rank_query, scraper, peer>>

parse_return ==
    /\ parser.pc = "call"
    /\ parser' = [parser EXCEPT
                    !.pc = "done",
                    !.result = <<parse_jeffrie_response(parser.content),
                                 from_jeffrie_response(parser.content)>>]
    /\ UNCHANGED <<clock, clan, calls, members, last_check,
                   monitoring_task, tasks, awaiting, run, stopped,
                   loop_start, last_result>>
    /\ UNCHANGED <<rank_query, scraper, peer>>

NextParser == parse_call \/ parse_return

SpecParser == Init /\ [][NextParser]_vars

----------------------------------------------------------------------------
(* PlayerMonitor._query_jeffrie_bot on its own.  Nothing in the program    *)
(* calls it; it is applied here to the settings of JEFFRIE_BOT_ID, to the  *)
(* usernames and to the text channels of the guilds, each with or without  *)
(* the permission to send                                                  *)

(* os.getenv('JEFFRIE_BOT_ID', '0'): the variable is not set, or its value *)
Settings == {"absent", "0", "7", "x"}

(* int() of the setting; None stands for the ValueError it raises *)
IntOf(env) ==
    CASE env = "absent" -> 0
      [] env = "0" -> 0
      [] env = "7" -> 7
      [] OTHER -> None

ChannelLists == UNION {[1..n -> BOOLEAN] : n \in 0..MaxChannels}

(* the replies wait_for hands over *)
Replies == {<<"Online", "\n", "Yes">>, <<"Offline">>}

(* line 121: wait_for(..., timeout=20.0) *)
ReplyTimeout == 20

(* how long a reply that arrives in time takes *)
ReplyTimes == {0, ReplyTimeout - 1}

(* the test of line 104 left out *)
Disabled_never(jeffrie_bot_id) == FALSE

(* line 104 *)
Disabled(jeffrie_bot_id) == jeffrie_bot_id = 0

query_call ==
    /\ peer.pc = "none"
    /\ \E env \in Settings, username \in Usernames,
          channels \in ChannelLists :
         peer' = [NoPeer EXCEPT !.pc = "start", !.env = env,
                                !.username = username,
                                !.channels = channels]
    /\ UNCHANGED <<clock, clan, calls, members, last_check,
                   monitoring_task, tasks, awaiting, run, stopped,
                   loop_start, last_result>>
    /\ UNCHANGED <<rank_query, scraper, parser>>

(* lines 101-105: the ValueError of int() goes to the handler of line 130, *)
(* which returns None as well                                              *)
query_jeffrie_bot ==
    /\ peer.pc = "start"
    /\ peer' = IF IntOf(peer.env) = None \/ Disabled(IntOf(peer.env))
               THEN [peer EXCEPT !.pc = "done"]
               ELSE [peer EXCEPT !.pc = "scan", !.k = 1]
    /\ UNCHANGED <<clock, clan, calls, members, last_check,
                   monitoring_task, tasks, awaiting, run, stopped,
                   loop_start, last_result>>
    /\ UNCHANGED <<rank_query, scraper, parser>>

(* lines 108-113: the next channel; without the permission it is passed    *)
(* over, with it the command is sent, and a send that raises leads to the  *)
(* next channel                                                            *)
query_send ==
    /\ peer.pc = "scan"
    /\ IF peer.k > Len(peer.channels)
       THEN peer' = [peer EXCEPT !.pc = "done"]
       ELSE IF ~peer.channels[peer.k]
       THEN peer' = [peer EXCEPT !.k = @ + 1]
       ELSE \E sent_ok \in BOOLEAN :
              peer' = IF sent_ok
                      THEN [peer EXCEPT !.pc = "wait", !.sent = @ + 1]
                      ELSE [peer EXCEPT !.k = @ + 1, !.sent = @ + 1]
    /\ UNCHANGED <<clock, clan, calls, members, last_check,
                   monitoring_task, tasks, awaiting, run, stopped,
                   loop_start, last_result>>
    /\ UNCHANGED <<rank_query, scraper, parser>>

(* the query given up at the first timeout *)
query_wait_gives_up ==
    /\ peer.pc = "wait"
    /\ \/ \E content \in Replies, d \in ReplyTimes :
            peer' = [peer EXCEPT
                       !.pc = "done", !.waited = @ + 1,
                       !.elapsed = @ + d,
                       !.result = <<parse_jeffrie_response(content)>>]
       \/ peer' = [peer EXCEPT !.pc = "done", !.waited = @ + 1,
                                !.elapsed = @ + ReplyTimeout]
    /\ UNCHANGED <<clock, clan, calls, members, last_check,
                   monitoring_task, tasks, awaiting, run, stopped,
                   loop_start, last_result>>
    /\ UNCHANGED <<rank_query, scraper, parser>>

(* lines 121-128: the reply is parsed and returned, or wait_for times out  *)
(* after 20 and the handler of line 126 continues with the next channel    *)
query_wait ==
    /\ peer.pc = "wait"
    /\ \/ \E content \in Replies, d \in ReplyTimes :
            peer' = [peer EXCEPT
                       !.pc = "done", !.waited = @ + 1,
                       !.elapsed = @ + d,
                       !.result = <<parse_jeffrie_response(content)>>]
       \/ peer' = [peer EXCEPT !.pc = "scan", !.k = @ + 1,
                                !.waited = @ + 1,
                                !.elapsed = @ + ReplyTimeout]
    /\ UNCHANGED <<clock, clan, calls, members, last_check,
                   monitoring_task, tasks, awaiting, run, stopped,
                   loop_start, last_result>>
    /\ UNCHANGED <<rank_query, scraper, parser>>

NextPeer == query_call \/ query_jeffrie_bot \/ query_send \/ query_wait

SpecPeer == Init /\ [][NextPeer]_vars

----------------------------------------------------------------------------
(* Cadence and lifecycle of the polling loop *)

Live == {t \in 1..Len(tasks) : ~Done(t)}

(* C1: when the polling loop starts a check of a member, the previous      *)
(* check of that member by the loop, if any, started at least              *)
(* check_interval earlier, across passes and across restarts of the loop   *)
C1_Cadence ==
    [][\A u \in Usernames :
          loop_start'[u] # loop_start[u] =>
              \/ loop_start[u] = None
              \/ loop_start'[u] - loop_start[u] >= check_interval]_vars

(* a member has been checked by the loop a second time *)
C1_Witness ==
    \E u \in Usernames :
        /\ run.who = "loop" /\ run.user = u
        /\ last_check[u] # None
        /\ loop_start[u] - last_check[u] >= check_interval

(* C2 as stated: at the end of the first pass of a loop that was started  *)
(* after a stop, no member of the roster snapshot has been skipped         *)
C2_Original ==
    \A t \in 1..Len(tasks) :
        tasks[t].restart /\ tasks[t].pass = 1 /\ tasks[t].pc = "sleep"
            => tasks[t].skipped = {}

(* C2 amended: stop and start keep the cadence map, and in the first pass  *)
(* of a restarted loop a member is checked only when it is due by the map  *)
(* kept from before the restart and is skipped exactly when its last check *)
(* started less than check_interval earlier                                *)
C2_CadenceKept ==
    [][/\ (\/ Len(tasks') # Len(tasks)
           \/ awaiting' # awaiting
           \/ stopped' # stopped
           \/ \E t \in 1..Len(tasks) : Done(t)' /\ ~Done(t))
          => last_check' = last_check
       /\ \A t \in 1..Len(tasks) :
            tasks[t].restart /\ tasks'[t].pass = 1 =>
              /\ \A u \in tasks'[t].skipped :
                    (tasks[t].pass = 0 \/ u \notin tasks[t].skipped) =>
                        /\ last_check[u] # None
                        /\ clock - last_check[u] < check_interval
              /\ (run'.who = "loop" /\ run.who = "none" /\ run'.task = t) =>
                    \/ last_check[run'.user] = None
                    \/ clock - last_check[run'.user] >= check_interval]_vars

(* a restarted loop has skipped a member in its first pass *)
C2_Witness ==
    \E t \in 1..Len(tasks) :
        tasks[t].restart /\ tasks[t].pass = 1 /\ tasks[t].skipped # {}

(* C3: at most one polling loop is alive at any time, and start_monitoring *)
(* creates no task while one is alive                                      *)
C3_OneLoop ==
    /\ [](Cardinality(Live) <= 1)
    /\ [][Live # {} => Len(tasks') = Len(tasks)]_vars

(* a second loop runs after the first one was stopped *)
C3_Witness ==
    /\ Len(tasks) = 2
    /\ Done(1)
    /\ tasks[2].pc = "pacing"

(* C4: stop_monitoring returns only when the task it cancelled has         *)
(* finished, and a task whose stop has returned takes no further step: it  *)
(* runs no status check and writes nothing to the roster store             *)
C4_Cancellation ==
    /\ [](\A t \in stopped : Done(t) /\ (run.who = "loop" => run.task # t))
    /\ [][\A t \in stopped : tasks'[t] = tasks[t]]_vars

(* a loop that had checked a member was stopped in one of its sleeps *)
C4_Witness ==
    \E t \in stopped :
        /\ tasks[t].pass >= 1
        /\ \E u \in Usernames : last_check[u] # None

----------------------------------------------------------------------------
(* The strategy chain *)

(* the sources of get_player_info in the order of the code *)
Chain ==
    <<search_urls[1], search_urls[2], base_urls[1], base_urls[2],
      "synthetic">>

WebSources ==
    {search_urls[i] : i \in 1..Len(search_urls)}
        \cup {base_urls[i] : i \in 1..Len(base_urls)}

IsOverride(username) == Upper(username) \in {"K.O", "GOAT"}

(* the record a members table holds for a username, or the empty set *)
StoredIn(table, username) ==
    {[rank |-> table[i].rank, is_online |-> table[i].is_online] :
        i \in {j \in 1..Len(table) : table[j].username = username}}

Stored(username) == StoredIn(members, username)

(* the sources were tried in the order of the chain and all but the last   *)
(* yielded nothing                                                         *)
InChainOrder(tried) ==
    /\ Len(tried) <= Len(Chain)
    /\ \A i \in 1..Len(tried) : tried[i].source = Chain[i]
    /\ \A i \in 1..(Len(tried) - 1) : ~tried[i].found

C6_Fallback ==
    /\ [](/\ last_result.who = "loop"
          /\ Len(last_result.tried) = Len(Chain)
          => /\ last_result.rank =
                    generate_realistic_data(last_result.user).rank
             /\ last_result.is_online =
                    generate_realistic_data(last_result.user).is_online
             /\ last_result.updated =>
                    Stored(last_result.user) =
                        {[rank |-> generate_realistic_data(
                                       last_result.user).rank,
                          is_online |-> generate_realistic_data(
                                       last_result.user).is_online]})
    /\ [][\A t \in 1..Len(tasks) :
            (tasks[t].pc = "pacing" /\ tasks'[t].pc = "sleep") =>
                {tasks[t].members[i] : i \in 1..Len(tasks[t].members)}
                    \subseteq tasks'[t].checked \cup tasks'[t].skipped]_vars

(* Alice's stored status is the synthetic record after every endpoint      *)
(* failed in the loop's check                                              *)
C6_Witness ==
    /\ last_result.who = "loop"
    /\ last_result.user = "Alice"
    /\ Len(last_result.tried) = Len(Chain)
    /\ \A i \in 1..(Len(Chain) - 1) : ~last_result.tried[i].found
    /\ last_result.updated
    /\ Stored("Alice") = {[rank |-> "Recruit", is_online |-> TRUE]}

----------------------------------------------------------------------------
(* force_check_player and the identity overrides *)

(* C7: a force check runs whatever the cadence map holds for the username  *)
(* and leaves the map unchanged from its first step to its last; the       *)
(* record it returns is the record of its lookup, and it is the record the *)
(* roster store holds for the username once the write went through         *)
C7_ForceCheck ==
    /\ [][(run.who = "force" \/ run'.who = "force") =>
              last_check' = last_check]_vars
    /\ [][(run.who = "force" /\ run.pc = "update") =>
              /\ last_result'.who = "force"
              /\ last_result'.user = run.user
              /\ last_result'.rank = run.rank
              /\ last_result'.is_online = run.is_online
              /\ last_result'.updated =>
                    StoredIn(members', run.user) =
                        {[rank |-> run.rank, is_online |-> run.is_online]}
              /\ ~last_result'.updated => members' = members]_vars

(* a force check has stored its record for a member that the loop checked  *)
(* less than check_interval earlier                                        *)
C7_Witness ==
    /\ last_result.who = "force"
    /\ last_result.updated
    /\ last_check[last_result.user] # None
    /\ clock - last_check[last_result.user] < check_interval

(* C8: the lookup of "K.O" yields exactly Captain and online, the lookup   *)
(* of "GOAT" exactly Master Sergeant and offline, for the loop and for a   *)
(* force check, and no web endpoint and no synthetic data is involved      *)
Override(username) ==
    IF Upper(username) = "K.O"
    THEN [rank |-> "Captain", is_online |-> TRUE]
    ELSE [rank |-> "Master Sergeant", is_online |-> FALSE]

C8_Overrides ==
    /\ (run.who # "none" /\ IsOverride(run.user)) =>
          /\ run.pc \in {"start", "update"}
          /\ run.pc = "update" =>
                /\ run.rank = Override(run.user).rank
                /\ run.is_online = Override(run.user).is_online
                /\ run.tried = <<[source |-> "override", found |-> TRUE]>>
    /\ (last_result.who # "none" /\ IsOverride(last_result.user)) =>
          /\ last_result.rank = Override(last_result.user).rank
          /\ last_result.is_online = Override(last_result.user).is_online
          /\ last_result.tried = <<[source |-> "override", found |-> TRUE]>>

(* a force check of "GOAT" has stored its record after the loop had stored *)
(* the record of "K.O"                                                     *)
C8_Witness ==
    /\ last_result.who = "force"
    /\ last_result.user = "GOAT"
    /\ last_result.updated
    /\ Stored("GOAT") = {[rank |-> "Master Sergeant", is_online |-> FALSE]}
    /\ last_check["K.O"] # None

(* C9 as stated: every stored rank is a name of the rank table or          *)
(* "Unknown"                                                               *)
C9_Original ==
    \A i \in 1..Len(members) : members[i].rank \in RankNames \cup {"Unknown"}

----------------------------------------------------------------------------
(* RankTable *)

(* position of a rank name in the table *)
RankIndex(name) == CHOOSE i \in 1..Len(ranks) : ranks[i][2] = name

(* the entry with the highest threshold that does not exceed e *)
HighestBelow(e) ==
    CHOOSE i \in 1..Len(ranks) :
        /\ ranks[i][1] <= e
        /\ \A j \in 1..Len(ranks) : ranks[j][1] <= e => ranks[j][1] <= ranks[i][1]

(* C10: the thresholds are strictly increasing; for every experience >= 0  *)
(* the result is the rank of the highest threshold that does not exceed    *)
(* it, so it never decreases when the experience grows and is "Recruit"    *)
(* below 500                                                               *)
C10_RankTable ==
    /\ \A i \in 1..(Len(ranks) - 1) : ranks[i][1] < ranks[i + 1][1]
    /\ rank_query.pc = "done" =>
          LET e1 == rank_query.experience[1]
              e2 == rank_query.experience[2]
              r1 == rank_query.rank[1]
              r2 == rank_query.rank[2]
          IN  /\ r1 = ranks[HighestBelow(e1)][2]
              /\ r2 = ranks[HighestBelow(e2)][2]
              /\ e1 <= e2 => RankIndex(r1) <= RankIndex(r2)
              /\ e1 < 500 => r1 = "Recruit"

(* the calls for 499 and for 500 have returned Recruit and Private *)
C10_Witness ==
    /\ rank_query.pc = "done"
    /\ rank_query.experience = <<499, 500>>
    /\ rank_query.rank = <<"Recruit", "Private">>

----------------------------------------------------------------------------
(* The records of the strategies *)

(* C11 as stated: every record a strategy has produced with an experience  *)
(* value carries the rank that the rank table gives for the experience     *)
C11_Original ==
    /\ \A i \in 1..Len(scraper.log) :
          scraper.log[i].rank =
              get_rank_from_experience(scraper.log[i].experience)
    /\ \A i \in 1..Len(scraper.last) :
          scraper.last[i].experience # None =>
              scraper.last[i].rank =
                  get_rank_from_experience(scraper.last[i].experience)

(* C12: whatever was generated before, for whatever usernames, however the *)
(* generator was used in between and across restarts of the process, the   *)
(* calls of _generate_realistic_data for one username return one and the   *)
(* same record, and every call returns a record: a rank of the table, a    *)
(* flag and an experience from the base of the rank to 2000 above it       *)
C12_Deterministic ==
    /\ \A i, j \in 1..Len(scraper.log) :
          scraper.log[i].username = scraper.log[j].username =>
              scraper.log[i] = scraper.log[j]
    /\ \A i \in 1..Len(scraper.log) :
          LET info == scraper.log[i]
          IN  /\ info.rank \in RankNames
              /\ info.is_online \in BOOLEAN
              /\ \E k \in 1..Len(ranks) :
                    /\ ranks[k][2] = info.rank
                    /\ info.experience \in ranks[k][1]..(ranks[k][1] + 2000)

(* the data of one username was generated twice, with the data of another  *)
(* username generated in between, and the generator was last used          *)
(* elsewhere                                                               *)
C12_Witness ==
    /\ Len(scraper.log) = 3
    /\ scraper.log[1].username = scraper.log[3].username
    /\ scraper.log[2].username # scraper.log[1].username
    /\ scraper.rng.pos > 1

----------------------------------------------------------------------------
(* The reply parsers *)

(* the rank names of the if/elif chain other than the two of the claim and *)
(* "Lieutenant", which "Lieutenant Colonel" holds                          *)
OtherRankNames ==
    {rank_chain[i] : i \in 1..Len(rank_chain)}
        \ {<<"Colonel">>, <<"Lieutenant", " ", "Colonel">>, <<"Lieutenant">>}

(* C13: a reply in which "Colonel" and "Lieutenant Colonel" occur, and no  *)
(* other rank name, is parsed to the rank "Lieutenant Colonel"             *)
C13_RankPriority ==
    (/\ parser.pc = "done"
     /\ Occurs(<<"Colonel">>, parser.content)
     /\ Occurs(<<"Lieutenant", " ", "Colonel">>, parser.content)
     /\ \A words \in OtherRankNames : ~Occurs(words, parser.content))
        => parser.result[1].rank = "Lieutenant Colonel"

(* the reply "Lieutenant Colonel" was parsed *)
C13_Witness ==
    /\ parser.pc = "done"
    /\ parser.content = <<"Lieutenant", " ", "Colonel">>
    /\ parser.result[1].rank = "Lieutenant Colonel"

(* the positive indicators of the tokens, compared without case, and the   *)
(* structured marker: "Online" with an affirmative token next to it        *)
PositiveIndicator(content) ==
    \/ \E i \in 1..Len(content) : Lower(content[i]) = "online"
    \/ Occurs(<<"Online", "\n", "Yes">>, content)
    \/ Occurs(<<"Online", ": ", "Yes">>, content)

----------------------------------------------------------------------------
(* The peer bot query *)

(* C15: with JEFFRIE_BOT_ID not set or set to 0, _query_jeffrie_bot        *)
(* returns None for every username, and up to its return it has sent       *)
(* nothing to any channel and has waited for no reply, whatever channels   *)
(* there are                                                               *)
C15_PeerDisabled ==
    (peer.pc # "none" /\ peer.env \in {"absent", "0"}) =>
        /\ peer.pc \in {"start", "done"}
        /\ peer.sent = 0
        /\ peer.waited = 0
        /\ peer.result = <<>>

(* the query has returned for an unset JEFFRIE_BOT_ID although a channel   *)
(* with the permission to send was there                                   *)
C15_Witness ==
    /\ peer.pc = "done"
    /\ peer.env = "absent"
    /\ \E k \in 1..Len(peer.channels) : peer.channels[k]
    /\ peer.result = <<>>

----------------------------------------------------------------------------
(* The polling loop over time: faults, passes and pacing *)

(* stop_monitoring was called for the task and has cancelled it *)
StopCalled(t) == tasks[t].cancel \/ t \in awaiting \/ t \in stopped

(* the engine is Running: the task of the monitor is live and no stop has  *)
(* been asked for                                                          *)
Running ==
    /\ monitoring_task # None
    /\ ~Done(monitoring_task)
    /\ ~StopCalled(monitoring_task)

InRoster(username) == MemberIndex(username) # {}

(* a sleep of the loop ends after the last instant of the model *)
Horizon ==
    \E t \in 1..Len(tasks) :
        tasks[t].pc \in {"pacing", "sleep"} /\ tasks[t].wake > MaxTime

(* the member the loop reaches last in the roster the model starts with:   *)
(* its check needs the checks of all the others and the pacing sleeps      *)
Watched == InitialRoster[Len(InitialRoster)].username

(* the loop is in a check of the watched member, or the member has left    *)
(* the roster, or stop was called, or the model's time is up               *)
Released ==
    \/ run.who = "loop" /\ run.user = Watched
    \/ ~InRoster(Watched)
    \/ monitoring_task # None /\ StopCalled(monitoring_task)
    \/ Horizon

(* C16: a loop task ends only after stop_monitoring has cancelled it,      *)
(* whatever the roster store and the endpoints answer; from its second     *)
(* pass on a loop skips no member of its roster snapshot; and while the    *)
(* engine is Running, a member of the roster (the one watched) is checked  *)
(* by the loop again and again, unless it leaves the roster, stop is       *)
(* called or the next sleep ends beyond the last instant of the model:     *)
(* the engine stops being Running with the member in the roster only by    *)
(* one of these, and one of these, or the engine not Running with the      *)
(* member, comes again and again                                           *)
C16_KeepsRunning ==
    /\ [][\A t \in 1..Len(tasks) :
            (~Done(t) /\ tasks'[t].pc = "done") => tasks[t].cancel]_vars
    /\ [](\A t \in 1..Len(tasks) :
            tasks[t].pass >= 2 => tasks[t].skipped = {})
    /\ [][((Running /\ InRoster(Watched)) /\ ~(Running /\ InRoster(Watched))')
              => Released']_vars
    /\ []<>(~(Running /\ InRoster(Watched)) \/ Released)

(* the loop checks the watched member again, in its second pass, while the *)
(* engine is Running                                                       *)
C16_Witness ==
    /\ run.who = "loop"
    /\ run.user = Watched
    /\ tasks[run.task].pass >= 2
    /\ last_check[run.user] # None
    /\ Running

(* C17: the loop's write of a member's status changes no other member's    *)
(* stored status, and a write that fails changes nothing; whether it       *)
(* succeeds or fails, the member counts as checked, the loop goes to its   *)
(* pacing sleep with the same roster snapshot, starts no check of a member *)
(* it has already checked in the pass, and goes on with the next member of *)
(* the snapshot that is due                                                *)
C17_Isolation ==
    /\ [][(run.who = "loop" /\ run.pc = "update") =>
            /\ \A u \in Usernames \ {run.user} :
                  StoredIn(members', u) = StoredIn(members, u)
            /\ ~last_result'.updated => members' = members
            /\ tasks'[run.task].pc = "pacing"
            /\ tasks'[run.task].members = tasks[run.task].members
            /\ tasks'[run.task].idx = tasks[run.task].idx
            /\ run.user \in tasks'[run.task].checked]_vars
    /\ [][(run.who = "none" /\ run'.who = "loop") =>
            run'.user \notin tasks'[run'.task].checked]_vars
    /\ [][\A t \in 1..Len(tasks) :
            (tasks[t].pc = "pacing" /\ tasks'[t].pc \in {"check", "sleep"}) =>
                LET j == IF tasks'[t].pc = "check" THEN tasks'[t].idx
                         ELSE Len(tasks[t].members) + 1
                IN  /\ j > tasks[t].idx
                    /\ \A l \in (tasks[t].idx + 1)..(j - 1) :
                          ~Due(tasks[t].members[l], clock)
                    /\ tasks'[t].pc = "check" =>
                          /\ run'.user = tasks[t].members[j]
                          /\ Due(run'.user, clock)]_vars

(* the write for the first member of a pass has failed, the stored status  *)
(* is the one from before, and the loop is in its pacing sleep with more   *)
(* members to go                                                           *)
C17_Witness ==
    /\ last_result.who = "loop"
    /\ ~last_result.updated
    /\ InRoster(last_result.user)
    /\ \E t \in 1..Len(tasks) :
          /\ tasks[t].pc = "pacing"
          /\ tasks[t].checked = {last_result.user}
          /\ tasks[t].idx < Len(tasks[t].members)

(* C18 as stated: when the listing of the roster fails at the start of a   *)
(* pass, the loop sleeps LoopBackoff before the next pass                  *)
C18_Original ==
    [][\A t \in 1..Len(tasks) :
         (/\ tasks[t].pc \in {"new", "sleep"}
          /\ tasks'[t].pc = "sleep"
          /\ tasks'[t].pass = tasks[t].pass + 1
          /\ members # <<>>
          /\ tasks'[t].skipped = {})
         => tasks'[t].wake = clock + LoopBackoff]_vars

(* when the first check of the pass a task is in, or has just ended,       *)
(* started                                                                 *)
PassBegan(t) ==
    LET began == {loop_start[u] : u \in tasks[t].checked}
    IN  CHOOSE b \in began : \A c \in began : b <= c

(* C19 as stated: the sleep after a pass ends check_interval after the     *)
(* pass began, or at once when the pass took longer                        *)
C19_Original ==
    [][\A t \in 1..Len(tasks) :
         (tasks[t].pc = "pacing" /\ tasks'[t].pc = "sleep") =>
             tasks'[t].wake =
                 IF PassBegan(t) + check_interval > clock
                 THEN PassBegan(t) + check_interval
                 ELSE clock]_vars

(* C19 amended: the sleep after a pass lasts the whole check_interval,     *)
(* counted from the end of the pass, so it ends at least check_interval    *)
(* plus a pacing delay after the pass began; and the next pass begins when *)
(* the sleep is over, not before                                           *)
C19_FullSleep ==
    /\ [][\A t \in 1..Len(tasks) :
            (tasks[t].pc = "pacing" /\ tasks'[t].pc = "sleep") =>
                /\ tasks'[t].wake = clock + check_interval
                /\ tasks'[t].wake >=
                       PassBegan(t) + PacingDelay + check_interval]_vars
    /\ [][\A t \in 1..Len(tasks) :
            (tasks[t].pc = "sleep" /\ tasks'[t].pass = tasks[t].pass + 1) =>
                clock >= tasks[t].wake]_vars

(* a loop is in its second pass, after a first pass in which it checked    *)
(* the whole roster                                                        *)
C19_Witness ==
    \E t \in 1..Len(tasks) :
        /\ tasks[t].pass = 2
        /\ tasks[t].pc = "check"
        /\ clock >= check_interval + PacingDelay * Len(tasks[t].members)
        /\ \A i \in 1..Len(tasks[t].members) :
              last_check[tasks[t].members[i]] # None

(* C20: a status check of the loop runs alone, in the one task that is in  *)
(* its for loop, and that task does nothing else until the write is done;  *)
(* after the check the task sleeps and starts its next check, or ends the  *)
(* pass, PacingDelay after the end of the check at the earliest            *)
C20_Pacing ==
    /\ [](\A t \in 1..Len(tasks) :
            tasks[t].pc = "check" <=> (run.who = "loop" /\ run.task = t))
    /\ [][\A t \in 1..Len(tasks) :
            tasks[t].pc = "check" =>
                /\ tasks'[t].pc \in {"check", "pacing"}
                /\ tasks'[t].pc = "pacing" =>
                      /\ run.pc = "update"
                      /\ tasks'[t].wake = clock + PacingDelay]_vars
    /\ [][\A t \in 1..Len(tasks) :
            (tasks[t].pc = "pacing" /\ tasks'[t].pc \in {"check", "sleep"}) =>
                clock >= tasks[t].wake]_vars

(* the loop has started the check of the second member of its snapshot,    *)
(* PacingDelay or more after the check of the first                        *)
C20_Witness ==
    /\ run.who = "loop"
    /\ tasks[run.task].idx >= 2
    /\ tasks[run.task].checked # {}
    /\ \A u \in tasks[run.task].checked : clock >= loop_start[u] + PacingDelay

----------------------------------------------------------------------------
(* The web lookup and the peer query, step by step *)

(* C21 as stated: a record comes from an endpoint only when the endpoint   *)
(* answered 200 with a page that passes the validation                     *)
C21_Original ==
    (/\ run.who # "none"
     /\ run.pc = "update"
     /\ run.tried[Len(run.tried)].source \in WebSources)
        => run.valid

Passed ==
    IF peer.pc = "scan" THEN peer.k - 1
    ELSE IF peer.k > Len(peer.channels) THEN Len(peer.channels)
    ELSE peer.k

----------------------------------------------------------------------------
(* Writes to the roster store *)

(* the row a write of the lookup in progress leaves *)
Written ==
    [username |-> run.user, rank |-> run.rank, is_online |-> run.is_online,
     last_updated |-> clock]

(* C23: a stored row changes only by the write of one status check, which  *)
(* replaces rank, online flag and time of update at once by the values of  *)
(* that check's single lookup; a write that fails, and any write for a     *)
(* username without a row, leaves the table as it was and reports failure  *)
C23_LastWriterWins ==
    [][LET writing == run.who # "none" /\ run.pc = "update"
       IN  /\ \A i \in 1..Len(members) :
                 (i <= Len(members') /\ members'[i] # members[i]) =>
                     /\ writing
                     /\ members[i].username = run.user
                     /\ members'[i] = Written
                     /\ last_result'.updated
           /\ writing =>
                 /\ run.tried # <<>>
                 /\ run.tried[Len(run.tried)].found
                 /\ last_result'.rank = run.rank
                 /\ last_result'.is_online = run.is_online
                 /\ MemberIndex(run.user) = {} => ~last_result'.updated
                 /\ ~last_result'.updated => members' = members
                 /\ last_result'.updated =>
                       \E i \in MemberIndex(run.user) :
                           /\ members'[i] = Written
                           /\ \A j \in 1..Len(members) \ {i} :
                                  members'[j] = members[j]]_vars

(* the loop overwrites the row of a member who was added again, and force  *)
(* checked, after the clan had been removed                                *)
C23_Witness ==
    /\ last_result.who = "loop"
    /\ last_result.updated
    /\ Len(members) = 1
    /\ members[1] = [username |-> last_result.user,
                     rank |-> last_result.rank,
                     is_online |-> last_result.is_online,
                     last_updated |-> clock]
    /\ clock > 0

----------------------------------------------------------------------------
(* Rank names in the reply of the peer bot *)

(* the tokens that spell a rank name of the table *)
RankWords(name) ==
    CASE name = "Major General" -> <<"Major", " ", "General">>
      [] name = "Lieutenant General" -> <<"Lieutenant", " ", "General">>
      [] name = "Lieutenant Colonel" -> <<"Lieutenant", " ", "Colonel">>
      [] OTHER -> <<name>>

(* the rank names of the table that the replies of the model can spell *)
Vocabulary ==
    {name \in RankNames :
        \A i \in 1..Len(RankWords(name)) : RankWords(name)[i] \in Tokens}

(* C24 as stated: a reply that consists of one rank name of the table is   *)
(* parsed to that rank                                                     *)
C24_Original ==
    parser.pc = "done" =>
        \A name \in Vocabulary :
            parser.content = RankWords(name) =>
                parser.result[1].rank = name

----------------------------------------------------------------------------
(* start_monitoring during stop_monitoring *)

(* C25: a start_monitoring called while the current task is cancelled and  *)
(* not yet finished creates no task and changes nothing; when the          *)
(* stop_monitoring that awaits this task returns, no task is alive; and at *)
(* most one task is alive at any time                                      *)
C25_LateStart ==
    /\ [][last_result'.late_start =>
              UNCHANGED <<clock, clan, members, last_check, monitoring_task,
                          tasks, awaiting, run, stopped>>]_vars
    /\ [][\A t \in awaiting :
              (t \notin awaiting' /\ monitoring_task = t) =>
                  (t \in stopped' /\ Live' = {})]_vars
    /\ [](Cardinality(Live) <= 1)

(* start_monitoring has just been called while stop_monitoring awaits the  *)
(* cancelled task                                                          *)
C25_Witness ==
    /\ last_result.late_start
    /\ monitoring_task \in awaiting
    /\ ~Done(monitoring_task)
    /\ Len(tasks) = 1

----------------------------------------------------------------------------
(* The cadence gate within one run of the loop *)

(* C26: when a pass of a loop begins after the sleep that followed its     *)
(* previous pass, every member checked in the previous pass is due; the    *)
(* gate skips a member only in the first pass of a loop that was started   *)
(* after another one, never in a loop that runs since the process started  *)
(* and never in a later pass                                               *)
C26_AlwaysDue ==
    /\ [][\A t \in 1..Len(tasks) :
              (tasks[t].pc = "sleep" /\ tasks'[t].pass = tasks[t].pass + 1) =>
                  \A u \in tasks[t].checked :
                      /\ last_check[u] # None
                      /\ Due(u, clock)
                      /\ u \notin tasks'[t].skipped]_vars
    /\ [](\A t \in 1..Len(tasks) :
              (tasks[t].pass >= 2 \/ ~tasks[t].restart) =>
                  tasks[t].skipped = {})

(* the loop, started once and never stopped, has checked the three members *)
(* in its second pass                                                      *)
C26_Witness ==
    /\ calls = 1
    /\ Len(tasks) = 1
    /\ tasks[1].pass = 2
    /\ tasks[1].checked = {members[i].username : i \in 1..Len(members)}
    /\ tasks[1].skipped = {}
    /\ Len(members) = 3

(* C27: when a check by the loop ends, with the write done or failed, the  *)
(* cadence entry of its member becomes the time at which the check began   *)
(* and no other entry changes; the loop begins a check of a member only    *)
(* when the member has no entry or the entry is check_interval old; and an *)
(* entry, once set, is never removed or set back, whatever happens to the  *)
(* roster                                                                  *)
C27_CadenceOnFailure ==
    /\ [][(run.who = "loop" /\ run.pc = "update") =>
              /\ run.now = loop_start[run.user]
              /\ last_check' = [last_check EXCEPT ![run.user] = run.now]]_vars
    /\ [][(run.who = "none" /\ run'.who = "loop") =>
              \/ last_check[run'.user] = None
              \/ clock - last_check[run'.user] >= check_interval]_vars
    /\ [][\A u \in Usernames :
              last_check[u] # None =>
                  /\ last_check'[u] # None
                  /\ last_check'[u] >= last_check[u]]_vars

(* the write for a member who had left the roster failed, and the entry of *)
(* the member was set                                                      *)
C27_Witness ==
    /\ last_result.who = "loop"
    /\ ~last_result.updated
    /\ ~InRoster(last_result.user)
    /\ last_check[last_result.user] = loop_start[last_result.user]
    /\ last_check[last_result.user] # None

====
